---------------------------- MODULE Spec2Model ----------------------------
(***************************************************************************)
(* A model of the layered YAML configuration provider of yaml.go:          *)
(*   - mergeMaps, the deep merge of parsed documents, and the left-to-right*)
(*     fold of newYAMLProviderCore;                                        *)
(*   - yamlNode.Children / yamlNode.Find / yamlConfigProvider.Get, the     *)
(*     lazily expanded lookup tree;                                        *)
(*   - replace, the resolution of one ${KEY:DEFAULT} token.                *)
(*                                                                         *)
(* Go strings are sequences of one-character strings, so that slicing,     *)
(* strings.Index, strings.LastIndex and strings.EqualFold are computed.    *)
(* A parsed document (interface{}) is a tagged record:                     *)
(*   [kind |-> "nil"]                      nil (absent, or an explicit ~)  *)
(*   [kind |-> "scalar", v |-> i]          any non-nil scalar              *)
(*   [kind |-> "seq", elems |-> <<..>>]    []interface{}                   *)
(*   [kind |-> "map", m |-> f]             map[interface{}]interface{},    *)
(*                                         f a function on its keys        *)
(* Map keys are strings (the model has no non-string keys).                *)
(***************************************************************************)
EXTENDS Naturals, Integers, Sequences, FiniteSets, TLC

VARIABLES
  dst, src, merged,         \* one call of mergeMaps: its operands, its result
  files, next, made,        \* newYAMLProviderCore: the parsed files, the index
                            \* of the next one, the outcome
  root,                     \* the value the files merge into: the local root
                            \* of newYAMLProviderCore, then root.value of the
                            \* provider
  path, ord, hit,           \* one call of Find on the root node: the path, the
                            \* order in which each map is ranged over, the
                            \* result
  cache, builds,            \* of each node of the provider's tree: its
                            \* children field, and how often a child list was
                            \* built from its value
  got,                      \* the Value of the last Get
  held, ret,                \* the slice a caller holds from Children(), and
                            \* per node what its first and last call returned
  token, env, replaced,     \* one call of the function replace returns: the
                            \* text between ${ and }, the variables lookUp
                            \* finds, the result
  children, callers         \* one node under concurrent calls of Children():
                            \* its children field, and of each caller the
                            \* statement it is at and its locals

mergeVars == <<dst, src, merged>>
foldVars == <<files, next, made>>
findVars == <<path, ord, hit>>
treeVars == <<cache, builds, got>>
heldVars == <<held, ret>>
replaceVars == <<token, env, replaced>>
raceVars == <<children, callers>>
vars ==
  <<dst, src, merged, files, next, made, root, path, ord, hit, cache, builds,
    got, held, ret, token, env, replaced, children, callers>>

---------------------------------------------------------------------------
(* Values *)

Nil == [kind |-> "nil"]
Scalar(i) == [kind |-> "scalar", v |-> i]
Sequence(es) == [kind |-> "seq", elems |-> es]
Mapping(f) == [kind |-> "map", m |-> f]

IsNil(x) == x.kind = "nil"
IsMap(x) == x.kind = "map"
IsSeq(x) == x.kind = "seq"

\* A Go map read, dstMap[k]: the zero value nil for a key that is not there.
MapIndex(f, k) == IF k \in DOMAIN f THEN f[k] ELSE Nil

\* A Go map write, dstMap[k] = v.
MapAssign(f, k, v) == [x \in (DOMAIN f) \cup {k} |-> IF x = k THEN v ELSE f[x]]

\* The results of mergeMaps: (value, nil) and (nil, error).
Ok(v) == [err |-> FALSE, val |-> v]
Fail == [err |-> TRUE, val |-> Nil]

---------------------------------------------------------------------------
(* mergeMaps, yaml.go:93-131 *)

\* A merge whose default case keeps the destination.
mergeDefaultKeepsDst(d, s) == d

\* line 127, `dst = src`: a non-map source overwrites the destination.
mergeDefault(d, s) == s

\* A merge that forgets line 116: a key new to dst is dropped.
mergeAbsentDropped(dstMap, k, v) == dstMap

\* lines 115-116, `if oldVal == nil { dstMap[k] = v }`.
mergeAbsent(dstMap, k, v) == MapAssign(dstMap, k, v)

RECURSIVE mergeMaps(_, _)
RECURSIVE mergeRange(_, _, _)

\* lines 113-125, the loop `for k, v := range s` over the keys still to visit.
\* Go visits them in an unspecified order; the iterations write distinct keys
\* of dstMap, so the merged map and whether an error occurs do not depend on it.
mergeRange(dstMap, s, todo) ==
  IF todo = {} THEN Ok(Mapping(dstMap))
  ELSE LET k == CHOOSE x \in todo : TRUE
           v == s[k]
           oldVal == MapIndex(dstMap, k)
       IN IF IsNil(oldVal)
          THEN mergeRange(mergeAbsent(dstMap, k, v), s, todo \ {k})
          ELSE LET tmp == mergeMaps(oldVal, v)
               IN IF tmp.err THEN Fail
                  ELSE mergeRange(MapAssign(dstMap, k, tmp.val), s, todo \ {k})

mergeMaps(d, s) ==
  IF IsNil(d) THEN Ok(s)
  ELSE IF IsNil(s) THEN Ok(d)
  ELSE IF IsMap(s)
       THEN IF ~IsMap(d) THEN Fail
            ELSE mergeRange(d.m, s.m, DOMAIN s.m)
       ELSE Ok(mergeDefault(d, s))

---------------------------------------------------------------------------
(* Inputs of the merge *)

MaxDepth == 3

KeyA == <<"a">>
KeyB == <<"b">>

Leaves == {Nil, Scalar(1), Sequence(<<Scalar(1)>>)}

\* The maps with keys among a and b, some value of `as` under a (or no a) and
\* nil or a scalar under b (or no b).
MapsOver(as) ==
  {Mapping([k \in ks |-> IF k = KeyA THEN va ELSE vb]) :
     <<ks, va, vb>> \in {t \in (SUBSET {KeyA, KeyB}) \X as \X {Nil, Scalar(2)} :
                           /\ (KeyA \notin t[1] => t[2] = Nil)
                           /\ (KeyB \notin t[1] => t[3] = Nil)}}

RECURSIVE ValuesOfDepth(_)
ValuesOfDepth(d) ==
  IF d = 0 THEN Leaves ELSE Leaves \cup MapsOver(ValuesOfDepth(d - 1))

MergeValues == ValuesOfDepth(MaxDepth)

---------------------------------------------------------------------------
(* One call of mergeMaps *)

NotCalled == [called |-> FALSE]

\* The variables of a part of the program that a specification does not run.
NoMerge == dst = Nil /\ src = Nil /\ merged = NotCalled
NoFold == files = <<>> /\ next = 1 /\ made = "none"
NoFind == path = <<>> /\ ord = <<>> /\ hit = NotCalled
NoTree == cache = <<>> /\ builds = <<>> /\ got = NotCalled
NoHeld == held = NotCalled /\ ret = <<>>
NoReplace == token = <<>> /\ env = <<>> /\ replaced = NotCalled
NoRace == children = <<>> /\ callers = <<>>

InitMerge ==
  /\ dst \in MergeValues
  /\ src \in MergeValues
  /\ merged = NotCalled
  /\ root = Nil
  /\ NoFold /\ NoFind /\ NoTree /\ NoHeld /\ NoReplace /\ NoRace

CallMergeMaps ==
  /\ ~merged.called
  /\ merged' = [called |-> TRUE, res |-> mergeMaps(dst, src)]
  /\ UNCHANGED <<dst, src, foldVars, root, findVars, treeVars, heldVars, replaceVars, raceVars>>

NextMerge == CallMergeMaps

SpecMerge == InitMerge /\ [][NextMerge]_vars

---------------------------------------------------------------------------
(* Properties of one call of mergeMaps *)

\* A value that is there and is no map: a scalar or a sequence.
IsNonMap(x) == x.kind \in {"scalar", "seq"}

\* Some key of both maps pairs a map with a scalar or a sequence.
PairsMapWithNonMap(d, s) ==
  \E k \in (DOMAIN d.m) \cap (DOMAIN s.m) :
     \/ IsMap(d.m[k]) /\ IsNonMap(s.m[k])
     \/ IsNonMap(d.m[k]) /\ IsMap(s.m[k])

\* C1 (as claimed): merging a map with a scalar or a sequence, in either
\* order, at the top or under a shared key, fails and returns no value.
C1_MergeConflictBothWays ==
  merged.called =>
    /\ (IsMap(dst) /\ IsNonMap(src)) => merged.res = Fail
    /\ (IsNonMap(dst) /\ IsMap(src)) => merged.res = Fail
    /\ (IsMap(dst) /\ IsMap(src) /\ PairsMapWithNonMap(dst, src)) => merged.res = Fail

\* No key shared by d and s, at any depth, pairs a map with a scalar or a
\* sequence (nil pairs with anything).
RECURSIVE Compatible(_, _)
Compatible(d, s) ==
  IF IsNil(d) \/ IsNil(s) THEN TRUE
  ELSE IF IsMap(d) /\ IsMap(s)
       THEN \A k \in (DOMAIN d.m) \cap (DOMAIN s.m) : Compatible(d.m[k], s.m[k])
       ELSE ~IsMap(d) /\ ~IsMap(s)

\* r is the deep merge of the compatible values d and s: the one that is there
\* when the other is nil, the key-wise deep merge of two maps, and s otherwise.
RECURSIVE IsDeepMerge(_, _, _)
IsDeepMerge(d, s, r) ==
  IF IsNil(d) THEN r = s
  ELSE IF IsNil(s) THEN r = d
  ELSE IF IsMap(d)
       THEN /\ IsMap(r)
            /\ DOMAIN r.m = (DOMAIN d.m) \cup (DOMAIN s.m)
            /\ \A k \in DOMAIN r.m :
                 IF k \notin DOMAIN s.m THEN r.m[k] = d.m[k]
                 ELSE IF k \notin DOMAIN d.m THEN r.m[k] = s.m[k]
                 ELSE IsDeepMerge(d.m[k], s.m[k], r.m[k])
       ELSE r = s

\* C2: two maps that are compatible at every depth merge without error into
\* the map on the union of their keys: a key of dst alone keeps dst's value,
\* a key of src alone takes src's, a shared key holds the deep merge.
C2_DeepMerge ==
  (merged.called /\ IsMap(dst) /\ IsMap(src) /\ Compatible(dst, src)) =>
    /\ ~merged.res.err
    /\ IsDeepMerge(dst, src, merged.res.val)

\* Two maps were merged two levels down: under a shared key both hold maps
\* that have a key of dst alone, a key of src alone and a shared key, itself
\* holding maps on both sides.
C2_Witness ==
  /\ merged.called /\ IsMap(dst) /\ IsMap(src) /\ Compatible(dst, src)
  /\ ~merged.res.err
  /\ KeyA \in (DOMAIN dst.m) \cap (DOMAIN src.m)
  /\ IsMap(dst.m[KeyA]) /\ IsMap(src.m[KeyA])
  /\ DOMAIN dst.m[KeyA].m = {KeyA, KeyB} /\ DOMAIN src.m[KeyA].m = {KeyA}
  /\ IsMap(dst.m[KeyA].m[KeyA]) /\ IsMap(src.m[KeyA].m[KeyA])
  /\ DOMAIN dst.m[KeyA].m[KeyA].m = {KeyA}
  /\ DOMAIN src.m[KeyA].m[KeyA].m = {KeyB}
  /\ DOMAIN merged.res.val.m[KeyA].m[KeyA].m = {KeyA, KeyB}

---------------------------------------------------------------------------
(* newYAMLProviderCore, yaml.go:47-74 *)

MaxFiles == 3

\* What unmarshalYAMLValue gives for a file that does not parse.
Malformed == [kind |-> "malformed"]

\* The documents a file at position j may hold: nothing at all, a syntax
\* error, or a map with keys among a and b. Its scalars carry j, so that the
\* document a merged value came from can be told. Under a: nil, a scalar or a
\* sequence; under b: nil, a scalar or a map.
DocsAt(j) ==
  {Nil, Malformed} \cup
  {Mapping([k \in ks |-> IF k = KeyA THEN va ELSE vb]) :
     <<ks, va, vb>> \in
       {t \in (SUBSET {KeyA, KeyB})
               \X {Nil, Scalar(j), Sequence(<<Scalar(j)>>)}
               \X {Nil, Scalar(j), Mapping(KeyA :> Scalar(j))} :
          /\ (KeyA \notin t[1] => t[2] = Nil)
          /\ (KeyB \notin t[1] => t[3] = Nil)}}

\* A file (an io.Reader) that has not been read yet.
Unread == [kind |-> "unread"]

InitFold ==
  /\ files \in {[j \in 1..n |-> Unread] : n \in 0..MaxFiles}
  /\ next = 1
  /\ root = Nil
  /\ made = "running"
  /\ NoMerge /\ NoFind /\ NoTree /\ NoHeld /\ NoReplace /\ NoRace

\* lines 49-65: one iteration of `for _, v := range files`; curr is what
\* unmarshalYAMLValue reads from the file, kept in files for the record.
MergeFile ==
  /\ made = "running"
  /\ next <= Len(files)
  /\ \E curr \in DocsAt(next) :
       /\ files' = [files EXCEPT ![next] = curr]
       /\ IF curr = Malformed
          THEN made' = "failed" /\ UNCHANGED <<root, next>>
          ELSE LET tmp == mergeMaps(root, curr)
               IN IF tmp.err
                  THEN made' = "failed" /\ UNCHANGED <<root, next>>
                  ELSE root' = tmp.val /\ next' = next + 1 /\ UNCHANGED made
  /\ UNCHANGED <<mergeVars, findVars, treeVars, heldVars, replaceVars, raceVars>>

\* lines 67-73: the loop is over, the provider is made around root.
MakeProvider ==
  /\ made = "running"
  /\ next > Len(files)
  /\ made' = "ok"
  /\ UNCHANGED <<files, next, root, mergeVars, findVars, treeVars, heldVars, replaceVars, raceVars>>

NextFold == MergeFile \/ MakeProvider

SpecFold == InitFold /\ [][NextFold]_vars

\* What a document holds under k: nil when it is no map or has no such key.
ValueAt(doc, k) == IF IsMap(doc) THEN MapIndex(doc.m, k) ELSE Nil

\* The files merged so far whose document holds a non-nil value under k.
Setting(k) == {j \in 1..(next - 1) : ~IsNil(ValueAt(files[j], k))}

Latest(S) == CHOOSE j \in S : \A i \in S : i <= j

\* C3: while the fold runs and when it has made the provider, a key that
\* holds no map in any file merged so far has, in root, the value of the last
\* file that holds a non-nil value under it; and root is nil as long as every
\* file merged so far was empty.
C3_OverrideOrder ==
  made \in {"running", "ok"} =>
    /\ \A k \in {KeyA, KeyB} :
         ((\A j \in 1..(next - 1) : ~IsMap(ValueAt(files[j], k))) /\ Setting(k) # {})
           => /\ IsMap(root)
              /\ k \in DOMAIN root.m
              /\ root.m[k] = files[Latest(Setting(k))].m[k]
    /\ (\A j \in 1..(next - 1) : IsNil(files[j])) => IsNil(root)

\* Three files were merged: the first sets a to a scalar, the second to a
\* sequence, the third holds an explicit null under a; a is the second's.
C3_Witness ==
  /\ made = "ok" /\ Len(files) = 3
  /\ files[1] = Mapping(KeyA :> Scalar(1))
  /\ IsMap(files[2]) /\ KeyA \in DOMAIN files[2].m /\ IsSeq(files[2].m[KeyA])
  /\ IsMap(files[3]) /\ KeyA \in DOMAIN files[3].m /\ IsNil(files[3].m[KeyA])
  /\ root.m[KeyA] = Sequence(<<Scalar(2)>>)

---------------------------------------------------------------------------
(* Strings *)

\* _separator, the separator of a dotted path, and Root, the key of the root
\* node: constants of the package that yaml.go uses and does not define.
Separator == "."
Root == <<>>

\* Unicode simple case folding, on the letters of the model.
FoldChar(c) ==
  CASE c = "A" -> "a" [] c = "B" -> "b" [] c = "C" -> "c" [] OTHER -> c

\* strings.EqualFold.
EqualFold(s, t) ==
  /\ Len(s) = Len(t)
  /\ \A i \in 1..Len(s) : FoldChar(s[i]) = FoldChar(t[i])

\* strings.Index and strings.LastIndex for a one-character separator: the
\* 0-based position of its first (last) occurrence, -1 when there is none.
Index(s, c) ==
  LET at == {i \in 1..Len(s) : s[i] = c}
  IN IF at = {} THEN -1 ELSE (CHOOSE i \in at : \A j \in at : i <= j) - 1

LastIndex(s, c) ==
  LET at == {i \in 1..Len(s) : s[i] = c}
  IN IF at = {} THEN -1 ELSE (CHOOSE i \in at : \A j \in at : j <= i) - 1

\* The Go slices s[:hi] and s[lo:] (0-based, hi exclusive).
SliceTo(s, hi) == SubSeq(s, 1, hi)
SliceFrom(s, lo) == SubSeq(s, lo + 1, Len(s))

Digits == <<"0", "1", "2", "3", "4", "5", "6", "7", "8", "9">>

\* strconv.Itoa of a natural number.
RECURSIVE Itoa(_)
Itoa(k) ==
  IF k < 10 THEN <<Digits[k + 1]>>
  ELSE Itoa(k \div 10) \o <<Digits[(k % 10) + 1]>>

\* fmt.Sprintf("%v", k) of a map key: a string key is its own text.
KeyText(k) == k

---------------------------------------------------------------------------
(* The lookup tree, yaml.go:280-362, 412-421 *)

\* getNodeType, lines 412-421.
getNodeType(val) ==
  IF IsMap(val) THEN "objectNode"
  ELSE IF IsSeq(val) THEN "arrayNode"
  ELSE "valueNode"

\* A node is named by the labels on the way to it from the root node, <<>>:
\* a child made by Children() for a map entry or a sequence element is its
\* parent's name with the child's key appended. The value field of the node
\* named id in the tree over the value v:
RECURSIVE NodeValue(_, _)
NodeValue(v, id) ==
  IF id = <<>> THEN v
  ELSE IF IsMap(v)
       THEN NodeValue(v.m[CHOOSE k \in DOMAIN v.m : KeyText(k) = Head(id)], Tail(id))
       ELSE NodeValue(v.elems[CHOOSE i \in 1..Len(v.elems) : Itoa(i - 1) = Head(id)],
                      Tail(id))

\* The names of all nodes that the tree over v can hold, below the name id.
RECURSIVE NodesBelow(_, _)
NodesBelow(v, id) ==
  {id} \cup
  (IF IsMap(v)
   THEN UNION {NodesBelow(v.m[k], Append(id, KeyText(k))) : k \in DOMAIN v.m}
   ELSE IF IsSeq(v)
        THEN UNION {NodesBelow(v.elems[i], Append(id, Itoa(i - 1))) :
                      i \in 1..Len(v.elems)}
        ELSE {})

Nodes(v) == NodesBelow(v, <<>>)

\* The orders in which `range` may visit the keys of a map.
Perms(S) ==
  {p \in [1..Cardinality(S) -> S] : \A i, j \in DOMAIN p : i # j => p[i] # p[j]}

\* An assignment, to the nodes ns of the tree over v, of the order in which
\* the build of its children ranges over its map (<<>> for a node of another
\* kind).
RECURSIVE RangeOrders(_, _)
RangeOrders(v, ns) ==
  IF ns = {} THEN {<<>>}
  ELSE LET n == CHOOSE x \in ns : TRUE
           val == NodeValue(v, n)
           own == IF IsMap(val) THEN Perms(DOMAIN val.m) ELSE {<<>>}
       IN {MapAssign(f, n, p) : <<f, p>> \in RangeOrders(v, ns \ {n}) \X own}

\* Children(), lines 332-356: the keys of the children built for a node
\* whose value is val, in the order built; keys is the order of the range
\* over a map.
BuildChildren(val, keys) ==
  IF getNodeType(val) = "objectNode"
  THEN [i \in 1..Len(keys) |-> KeyText(keys[i])]
  ELSE IF getNodeType(val) = "arrayNode"
       THEN [i \in 1..Len(val.elems) |-> Itoa(i - 1)]
       ELSE <<>>

\* The results of Find: nil, a node, and a run-time panic of a slice
\* expression out of range. seen holds the nodes whose Children() was called.
NoNode == [st |-> "nil", id |-> <<>>, seen |-> {}]
Found(id) == [st |-> "node", id |-> id, seen |-> {}]
Panic == [st |-> "panic", id |-> <<>>, seen |-> {}]
Seeing(r, ns) == [r EXCEPT !.seen = @ \cup ns]

Last(s) == s[Len(s)]

\* lines 319-323: the next, shorter candidate key, <<>> when the loop breaks.
Shorten(curr) ==
  LET last == LastIndex(curr, Separator)
  IN IF last > 0 THEN SliceTo(curr, last) ELSE <<>>

\* A search that takes the first child matching the candidate key, whether
\* or not the rest of the path is found below it.
TakeFirstMatch(sub, others) == sub

\* lines 313-315: the result of the search below a matching child stands
\* when it is a node; otherwise the range over the children goes on.
TryNext(sub, others) ==
  IF sub.st # "nil" THEN sub ELSE Seeing(others, sub.seen)

RECURSIVE Find(_, _, _, _)
RECURSIVE FindRange(_, _, _, _, _, _, _)
RECURSIVE FindLoop(_, _, _, _, _)

\* lines 307-317: the range over the children kids of the node n, from the
\* i-th on, for the candidate key curr.
FindRange(v, o, n, dottedPath, curr, kids, i) ==
  IF i > Len(kids) THEN NoNode
  ELSE IF EqualFold(kids[i], curr)
       THEN IF curr = dottedPath THEN Found(Append(n, kids[i]))
            ELSE IF Len(curr) + 1 > Len(dottedPath) THEN Panic
                 ELSE TryNext(Find(v, o, Append(n, kids[i]),
                                   SliceFrom(dottedPath, Len(curr) + 1)),
                              FindRange(v, o, n, dottedPath, curr, kids, i + 1))
       ELSE FindRange(v, o, n, dottedPath, curr, kids, i + 1)

\* lines 306-324: the loop over the candidate keys, from curr on.
FindLoop(v, o, n, dottedPath, curr) ==
  IF Len(curr) = 0 THEN NoNode
  ELSE LET kids == BuildChildren(NodeValue(v, n), o[n])
           r == FindRange(v, o, n, dottedPath, curr, kids, 1)
       IN IF r.st # "nil" THEN r
          ELSE Seeing(FindLoop(v, o, n, dottedPath, Shorten(curr)), r.seen)

\* Find, lines 305-327, on the node n of the tree over v, whose maps are
\* ranged over in the orders o.
Find(v, o, n, dottedPath) ==
  IF Len(dottedPath) = 0 THEN NoNode
  ELSE Seeing(FindLoop(v, o, n, dottedPath, dottedPath), {n})

---------------------------------------------------------------------------
(* One call of Find on the root node of a tree *)

MaxPathLen == 5

PathChars == {"a", "b", "c", ".", "0"}

Paths == UNION {[1..n -> PathChars] : n \in 0..MaxPathLen}

Ka == <<"a">>
Kb == <<"b">>
Kc == <<"c">>
KA == <<"A">>
Kab == <<"a", ".", "b">>
Kbc == <<"b", ".", "c">>

\* {"a.b": {"c": 1}, "a": {"b.c": 2}}
TreeDotted ==
  Mapping(Kab :> Mapping(Kc :> Scalar(1)) @@ Ka :> Mapping(Kbc :> Scalar(2)))

\* {"a.b": {"b": 1}, "a": {"b": {"c": 2}}}
TreeBacktrack ==
  Mapping(Kab :> Mapping(Kb :> Scalar(1))
          @@ Ka :> Mapping(Kb :> Mapping(Kc :> Scalar(2))))

\* {"A": {"b.c": 1}, "a": {"b": {"c": 2}}}
TreeFolded ==
  Mapping(KA :> Mapping(Kbc :> Scalar(1))
          @@ Ka :> Mapping(Kb :> Mapping(Kc :> Scalar(2))))

\* {"A": {"b": 1, "B": 2}, "c": ~}
TreeCase ==
  Mapping(KA :> Mapping(Kb :> Scalar(1) @@ <<"B">> :> Scalar(2)) @@ Kc :> Nil)

\* {"a": [1, {"b": ~}], "": 2}
TreeArray ==
  Mapping(Ka :> Sequence(<<Scalar(1), Mapping(Kb :> Nil)>>) @@ <<>> :> Scalar(2))

\* {"a.": {"b": 2}, ".a": {".b": 3}}
TreeEdges ==
  Mapping(<<"a", ".">> :> Mapping(Kb :> Scalar(2))
          @@ <<".", "a">> :> Mapping(<<".", "b">> :> Scalar(3)))

\* [[1], {"a": 2}]
TreeList == Sequence(<<Sequence(<<Scalar(1)>>), Mapping(Ka :> Scalar(2))>>)

Trees ==
  {TreeDotted, TreeBacktrack, TreeFolded, TreeCase, TreeArray, TreeEdges,
   TreeList, Scalar(1), Nil}

InitFind ==
  /\ root \in Trees
  /\ path \in Paths
  /\ ord \in RangeOrders(root, Nodes(root))
  /\ hit = NotCalled
  /\ NoMerge /\ NoFold /\ NoTree /\ NoHeld /\ NoReplace /\ NoRace

FindOnce ==
  /\ ~hit.called
  /\ hit' = [called |-> TRUE, res |-> Find(root, ord, <<>>, path)]
  /\ UNCHANGED <<root, path, ord, mergeVars, foldVars, treeVars, heldVars, replaceVars, raceVars>>

NextFind == FindOnce

SpecFind == InitFind /\ [][NextFind]_vars

\* The labels of the children of a node whose value is val.
ChildLabels(val) ==
  IF IsMap(val) THEN {KeyText(k) : k \in DOMAIN val.m}
  ELSE IF IsSeq(val) THEN {Itoa(i - 1) : i \in 1..Len(val.elems)}
  ELSE {}

\* The segmentations of the path p at the node n of the tree over v, each as
\* the node it ends in (whose name holds the chain) and the lengths of its
\* labels: a non-empty first label, up to the end of p or to a separator, that
\* equals the label of a child of n ignoring case, and, when p goes on, a
\* segmentation of the rest of p at that child.
RECURSIVE Segmentations(_, _, _)
Segmentations(v, n, p) ==
  UNION {
    UNION {
      IF i = Len(p) THEN {[node |-> Append(n, c), lens |-> <<i>>]}
      ELSE {[node |-> e.node, lens |-> <<i>> \o e.lens] :
              e \in Segmentations(v, Append(n, c), SubSeq(p, i + 2, Len(p)))} :
      c \in {c \in ChildLabels(NodeValue(v, n)) : EqualFold(c, SubSeq(p, 1, i))}} :
    i \in {i \in 1..Len(p) : i = Len(p) \/ p[i + 1] = Separator}}

\* s is at most t in the lexicographic order.
LexLeq(s, t) ==
  LET d == {i \in 1..Len(s) : i <= Len(t) /\ s[i] # t[i]}
  IN IF d = {} THEN Len(s) <= Len(t)
     ELSE LET i == CHOOSE x \in d : \A y \in d : x <= y IN s[i] < t[i]

\* C4 (as claimed): Find returns nil exactly when the path has no
\* segmentation, and otherwise the end of a segmentation whose label lengths
\* are lexicographically greatest among all segmentations.
C4_LexGreatest ==
  hit.called =>
    LET segs == Segmentations(root, <<>>, path)
    IN /\ hit.res.st # "panic"
       /\ (hit.res.st = "nil") <=> (segs = {})
       /\ (hit.res.st = "node") =>
            \E e \in segs : /\ e.node = hit.res.id
                            /\ \A f \in segs : LexLeq(f.lens, e.lens)

\* What is left of the path p below the i-th node of the chain id.
RECURSIVE RestAt(_, _, _)
RestAt(p, id, i) ==
  IF i = 0 THEN p ELSE SliceFrom(RestAt(p, id, i - 1), Len(id[i]) + 1)

\* Every label of the chain id is as long as the first label of any
\* segmentation of the rest of the path at the node the chain has reached.
LongestAtEveryLevel(v, p, id) ==
  \A i \in 1..Len(id) :
    \A e \in Segmentations(v, SubSeq(id, 1, i - 1), RestAt(p, id, i - 1)) :
      e.lens[1] <= Len(id[i])

\* No node of the tree over v has two children whose labels are equal
\* ignoring case.
NoTwins(v) ==
  \A n \in Nodes(v) :
    \A c, d \in ChildLabels(NodeValue(v, n)) : EqualFold(c, d) => c = d

\* C4 (amended): Find never panics; it returns nil exactly when the path has
\* no segmentation; otherwise it returns the end of a segmentation each of
\* whose labels is the longest that starts a segmentation of the rest of the
\* path at the node reached, which is the lexicographically greatest when no
\* two children of a node have labels equal ignoring case.
C4_FirstLongestMatch ==
  hit.called =>
    LET segs == Segmentations(root, <<>>, path)
    IN /\ hit.res.st # "panic"
       /\ (hit.res.st = "nil") <=> (segs = {})
       /\ (hit.res.st = "node") =>
            /\ \E e \in segs : e.node = hit.res.id
            /\ LongestAtEveryLevel(root, path, hit.res.id)
            /\ NoTwins(root) =>
                 \A f \in segs : /\ LexLeq(f.lens, [i \in 1..Len(hit.res.id) |-> Len(hit.res.id[i])])
                                 /\ (f.lens = [i \in 1..Len(hit.res.id) |-> Len(hit.res.id[i])]
                                       => f.node = hit.res.id)

\* a.b.c was looked up in {"a.b": {"c": 1}, "a": {"b.c": 2}} whose children
\* were built with "a" first, and the node of value 1 was found.
C4_Witness ==
  /\ hit.called
  /\ root = TreeDotted
  /\ path = <<"a", ".", "b", ".", "c">>
  /\ ord[<<>>] = <<Ka, Kab>>
  /\ hit.res.st = "node" /\ hit.res.id = <<Kab, Kc>>
  /\ NodeValue(root, hit.res.id) = Scalar(1)

---------------------------------------------------------------------------
(* The provider: Get, and the calls of Children and Find on its nodes *)

MaxBuilds == 2
MaxKeyLen == 3

KeyChars == {"a", "A", "."}

GetKeys == UNION {[1..n -> KeyChars] : n \in 0..MaxKeyLen}

Kaa == <<"a", ".", "a">>

\* {"A": {"a": 1}}
RootCase == Mapping(KA :> Mapping(Ka :> Scalar(1)))

\* {"A": 1, "a": 2}
RootTwins == Mapping(KA :> Scalar(1) @@ Ka :> Scalar(2))

\* {"a": ~, "a.a": [~, 1]}
RootNull == Mapping(Ka :> Nil @@ Kaa :> Sequence(<<Nil, Scalar(1)>>))

\* {"a.a": {"a": 1}, "a": {"a.a": 2}}
RootDotted ==
  Mapping(Kaa :> Mapping(Ka :> Scalar(1)) @@ Ka :> Mapping(Kaa :> Scalar(2)))

\* The merged roots a provider is made around: what the files merged into,
\* nil when there were none.
Roots == {RootCase, RootTwins, RootNull, RootDotted, Scalar(1), Nil}

\* The nodes of each tree, and the orders of range over its maps.
NodesOf == [r \in Roots |-> Nodes(r)]
OrdersOf == [r \in Roots |-> RangeOrders(r, Nodes(r))]

\* The children field of a node: nil, or the slice of the children built.
NotBuilt == [built |-> FALSE]
Built(list) == [built |-> TRUE, list |-> list]

\* The nodes that have been made: the root node, and the children in the
\* slices built so far.
Exists(n) ==
  \/ n = <<>>
  \/ /\ n # <<>>
     /\ LET parent == SubSeq(n, 1, Len(n) - 1)
        IN /\ cache[parent].built
           /\ \E i \in 1..Len(cache[parent].list) : cache[parent].list[i] = Last(n)

\* The orders of range that agree with the children already built.
AgreedOrders ==
  {o \in OrdersOf[root] :
     \A n \in NodesOf[root] :
       cache[n].built => BuildChildren(NodeValue(root, n), o[n]) = cache[n].list}

\* The children fields after the calls of Children() on the nodes seen that
\* had none built (lines 331-332), and the count of the builds.
CacheAfter(seen, o) ==
  [n \in NodesOf[root] |->
     IF n \in seen /\ ~cache[n].built
     THEN Built(BuildChildren(NodeValue(root, n), o[n]))
     ELSE cache[n]]

BuildsAfter(seen) ==
  [n \in NodesOf[root] |->
     IF n \in seen /\ ~cache[n].built THEN builds[n] + 1 ELSE builds[n]]

InitProvider ==
  /\ root \in Roots
  /\ cache = [n \in NodesOf[root] |-> NotBuilt]
  /\ builds = [n \in NodesOf[root] |-> 0]
  /\ got = NotCalled

Init ==
  /\ InitProvider
  /\ NoMerge /\ NoFold /\ NoFind /\ NoHeld /\ NoReplace /\ NoRace

\* A Get that reports a node whose value is nil as not found.
NewValueNilNotFound(key, res) ==
  [called |-> TRUE, key |-> key, panic |-> res.st = "panic",
   found |-> res.st = "node" /\ ~IsNil(NodeValue(root, res.id)),
   node |-> res.id,
   value |-> IF res.st = "node" THEN NodeValue(root, res.id) ELSE Nil]

\* Get, lines 272-277: the Value made of the node that getNode returns.
NewValue(key, res) ==
  [called |-> TRUE, key |-> key, panic |-> res.st = "panic",
   found |-> res.st = "node",
   node |-> res.id,
   value |-> IF res.st = "node" THEN NodeValue(root, res.id) ELSE Nil]

\* getNode, lines 257-263: the node returned for the orders o in which the
\* maps are ranged over.
getNode(key, o) ==
  IF key = Root THEN Found(<<>>) ELSE Find(root, o, <<>>, key)

\* What getNode leaves behind. It has a value receiver, as Get has: it runs
\* on a copy of the provider, so Find runs on a copy of the root node. The
\* copy has the children slice of the root node; when that is nil, the copy
\* builds children of its own from root.value, which are dropped with it, and
\* the root node stays as it was.
getNodeEffect(key, o, res) ==
  IF key = Root THEN UNCHANGED <<cache, builds>>
  ELSE IF cache[<<>>].built
       THEN /\ cache' = CacheAfter(res.seen, o)
            /\ builds' = BuildsAfter(res.seen)
       ELSE /\ builds[<<>>] < MaxBuilds
            /\ builds' = [builds EXCEPT ![<<>>] = @ + 1]
            /\ UNCHANGED cache

\* Get, lines 271-278.
CallGet ==
  /\ LET os == AgreedOrders
     IN \E key \in GetKeys : \E o \in os :
          LET res == getNode(key, o)
          IN /\ getNodeEffect(key, o, res)
             /\ got' = NewValue(key, res)
  /\ UNCHANGED <<root, mergeVars, foldVars, findVars, heldVars, replaceVars, raceVars>>

Next == CallGet

Spec == Init /\ [][Next]_vars

\* C5 (as claimed): two Gets, one after the other, of paths that are equal
\* ignoring case have the same outcome: both not found, or both found at the
\* same node with the same value.
C5_CaseInsensitiveGet ==
  [][(got.called /\ got'.called /\ EqualFold(got.key, got'.key))
       => (got'.found = got.found /\ got'.node = got.node /\ got'.value = got.value)]_vars

\* The nodes a key resolves to: the root node for the root key, the ends of
\* the segmentations of the key otherwise.
Resolves(key) ==
  IF key = Root THEN {<<>>}
  ELSE {e.node : e \in Segmentations(root, <<>>, key)}

\* C6: Get never panics; it reports found exactly when the key resolves to a
\* node, with the value of a node the key resolves to, nil when that value
\* is an explicit null; it reports not found with no value otherwise.
C6_NotFoundVersusNull ==
  got.called =>
    /\ ~got.panic
    /\ got.found <=> (Resolves(got.key) # {})
    /\ got.found => /\ got.node \in Resolves(got.key)
                    /\ got.value = NodeValue(root, got.node)
    /\ ~got.found => got.value = Nil

\* Get("a") on {"a": ~, "a.a": [~, 1]} reported found with a nil value.
C6_Witness ==
  /\ got.called
  /\ root = RootNull
  /\ got.key = Ka
  /\ got.found /\ IsNil(got.value)

---------------------------------------------------------------------------
(* The calls of Children and Find on the nodes of the provider's tree *)

TreeKeys == {Ka, Kaa}

TreeRoots == {RootTwins, RootNull}

\* A Children() that returns its own slice.
ReturnCache(n, list) ==
  [called |-> TRUE, node |-> n, shared |-> TRUE, list |-> list]

\* Children(), lines 359-361: the slice returned is a copy of n.children in
\* an array of its own.
ReturnCopy(n, list) ==
  [called |-> TRUE, node |-> n, shared |-> FALSE, list |-> list]

\* What a caller can do to the slice it holds: cut it, swap two entries,
\* overwrite an entry with another.
Mutations(l) ==
  {SubSeq(l, 1, Len(l) - 1) : i \in {i \in {1} : Len(l) > 0}}
  \cup {[l EXCEPT ![i] = l[j], ![j] = l[i]] : <<i, j>> \in {t \in (1..Len(l)) \X (1..Len(l)) : t[1] < t[2]}}
  \cup {[l EXCEPT ![i] = l[j]] : <<i, j>> \in {t \in (1..Len(l)) \X (1..Len(l)) : t[1] # t[2]}}

\* The array of a slice after the writes that made the slice held from list.
WrittenThrough(list, now) ==
  [i \in 1..Len(list) |-> IF i <= Len(now) THEN now[i] ELSE list[i]]

InitTree ==
  /\ root \in TreeRoots
  /\ cache = [n \in NodesOf[root] |-> NotBuilt]
  /\ builds = [n \in NodesOf[root] |-> 0]
  /\ got = NotCalled
  /\ held = NotCalled
  /\ ret = [n \in NodesOf[root] |-> NotCalled]
  /\ NoMerge /\ NoFold /\ NoFind /\ NoReplace /\ NoRace

\* Get, its Value dropped.
TreeGet ==
  /\ LET os == AgreedOrders
     IN \E key \in TreeKeys : \E o \in os : getNodeEffect(key, o, getNode(key, o))
  /\ UNCHANGED <<got, root, mergeVars, foldVars, findVars, heldVars, replaceVars, raceVars>>

\* Find, lines 305-327, called on a node of the provider's tree itself.
TreeFind ==
  /\ LET os == AgreedOrders
         ns == {n \in NodesOf[root] : Exists(n)}
     IN \E n \in ns, key \in TreeKeys : \E o \in os :
          LET res == Find(root, o, n, key)
          IN /\ cache' = CacheAfter(res.seen, o)
             /\ builds' = BuildsAfter(res.seen)
  /\ UNCHANGED <<got, root, mergeVars, foldVars, findVars, heldVars, replaceVars, raceVars>>

\* Children(), lines 330-362, called on a node of the provider's tree; the
\* caller holds the slice returned.
TreeChildren ==
  /\ LET os == AgreedOrders
         ns == {n \in NodesOf[root] : Exists(n)}
     IN \E n \in ns : \E o \in os :
          /\ cache' = CacheAfter({n}, o)
          /\ builds' = BuildsAfter({n})
          /\ held' = ReturnCopy(n, cache'[n].list)
          /\ ret' = [ret EXCEPT ![n] =
                       [called |-> TRUE,
                        first |-> IF ret[n].called THEN ret[n].first ELSE held'.list,
                        last |-> held'.list,
                        again |-> ret[n].called /\ held.called /\ held.node = n
                                   /\ held.list # ret[n].first]]
  /\ UNCHANGED <<got, root, mergeVars, foldVars, findVars, replaceVars, raceVars>>

\* The caller changes the slice it holds.
MutateHeld ==
  /\ held.called
  /\ \E l \in Mutations(held.list) :
       /\ held' = [held EXCEPT !.list = l]
       /\ cache' = IF held.shared
                   THEN [cache EXCEPT ![held.node].list = WrittenThrough(@, l)]
                   ELSE cache
  /\ UNCHANGED <<builds, ret, got, root, mergeVars, foldVars, findVars, replaceVars, raceVars>>

NextTree == TreeGet \/ TreeFind \/ TreeChildren \/ MutateHeld

SpecTree == InitTree /\ [][NextTree]_vars

\* C8 (as claimed): the child list of every node, the root node of the
\* provider too, is built from its value at most once.
C8_BuiltAtMostOnce == \A n \in DOMAIN builds : builds[n] <= 1

\* The labels of the children of a node whose value is val, as the claim has
\* them: the keys of a map in some order, the decimal indices of a sequence
\* in order, none otherwise.
IsChildList(val, l) ==
  IF IsMap(val)
  THEN /\ Len(l) = Cardinality(DOMAIN val.m)
       /\ {l[i] : i \in 1..Len(l)} = DOMAIN val.m
  ELSE IF IsSeq(val)
       THEN /\ Len(l) = Len(val.elems)
            /\ \A i \in 1..Len(l) : l[i] = <<Digits[i]>>
       ELSE l = <<>>

\* C10: every call of Children() on a node returned what the first call
\* returned, the node's child list, which is also what the node still holds
\* for the calls to come, whatever was done to the slices returned.
C10_ChildrenIdempotent ==
  \A n \in DOMAIN ret :
    ret[n].called =>
      /\ ret[n].last = ret[n].first
      /\ cache[n].built /\ cache[n].list = ret[n].first
      /\ IsChildList(NodeValue(root, n), ret[n].first)

\* Children() was called again on a node with two children after the caller
\* had changed the slice of the earlier call.
C10_Witness ==
  \E n \in DOMAIN ret :
    /\ ret[n].called /\ ret[n].again
    /\ Len(ret[n].first) = 2

---------------------------------------------------------------------------
(* replace, yaml.go:383-410 *)

MaxBodyLen == 4

BodyChars == {"K", ":", "\"", "d"}

Bodies == UNION {[1..n -> BodyChars] : n \in 0..MaxBodyLen}

\* _envSeparator, line 43.
EnvSeparator == ":"

\* A replace for which no default stands for the empty string.
NoEmptyDefault == <<>>

\* _emptyDefault, line 44: the two characters "".
EmptyDefault == <<"\"", "\"">>

\* The lookUp functions: the variables in defined are found, each with the
\* value val.
Envs ==
  [defined : {{}, {<<>>}, {<<"K">>}, {<<"K">>, <<"K", "K">>, <<"d">>}},
   val : {<<>>, <<"v">>, <<"d", ":">>}]

\* lookUp, the parameter of replace (line 383), called at line 397.
lookUp(e, key) ==
  [envVal |-> IF key \in e.defined THEN e.val ELSE <<>>,
   ok |-> key \in e.defined]

NoErr == [failed |-> FALSE]

\* fmt.Errorf at line 402: the error names the key.
EmptyDefaultErr(key) == [failed |-> TRUE, key |-> key]

\* The function replace returns, lines 384-409.
replace(e, in) ==
  LET sep == Index(in, EnvSeparator)
      key == IF sep = -1 THEN in ELSE SliceTo(in, sep)
      def == IF sep = -1 THEN <<>> ELSE SliceFrom(in, sep + 1)
      found == lookUp(e, key)
  IN IF found.ok THEN [val |-> found.envVal, err |-> NoErr]
     ELSE IF def = <<>> THEN [val |-> <<>>, err |-> EmptyDefaultErr(key)]
     ELSE IF def = EmptyDefault THEN [val |-> <<>>, err |-> NoErr]
     ELSE [val |-> def, err |-> NoErr]

InitReplace ==
  /\ token \in Bodies
  /\ env \in Envs
  /\ replaced = NotCalled
  /\ root = Nil
  /\ NoMerge /\ NoFold /\ NoFind /\ NoTree /\ NoHeld /\ NoRace

CallReplace ==
  /\ replaced' = [called |-> TRUE, res |-> replace(env, token)]
  /\ UNCHANGED <<token, env, root, mergeVars, foldVars, findVars, treeVars,
                 heldVars, raceVars>>

NextReplace == CallReplace

SpecReplace == InitReplace /\ [][NextReplace]_vars

\* C7: with K the token body up to its first ':' (all of it when it has
\* none) and D the text after that ':' (empty when it has none): when lookUp
\* finds K the result is the value found; else when D is empty the call fails
\* with an error naming K; else when D is the two characters "" the result
\* is the empty string; else the result is D, its further ':' included.
C7_TokenResolution ==
  replaced.called =>
    LET B == token
        colons == {i \in 1..Len(B) : B[i] = ":"}
        p == IF colons = {} THEN Len(B) + 1
             ELSE CHOOSE i \in colons : \A j \in colons : i <= j
        K == SubSeq(B, 1, p - 1)
        D == SubSeq(B, p + 1, Len(B))
        r == replaced.res
    IN IF K \in env.defined THEN ~r.err.failed /\ r.val = env.val
       ELSE IF D = <<>> THEN r.err.failed /\ r.err.key = K
       ELSE IF D = <<"\"", "\"">> THEN ~r.err.failed /\ r.val = <<>>
       ELSE ~r.err.failed /\ r.val = D

\* replace resolved K:"" to the empty string with K not found.
C7_Witness ==
  /\ replaced.called
  /\ token = <<"K", ":", "\"", "\"">>
  /\ env.defined = {}
  /\ ~replaced.res.err.failed /\ replaced.res.val = <<>>

---------------------------------------------------------------------------
(* Children(), yaml.go:330-362, called concurrently on one node *)

NumCallers == 2

RaceValues ==
  {Mapping(Ka :> Scalar(1) @@ Kb :> Scalar(2)),
   Sequence(<<Scalar(1), Scalar(2)>>),
   Scalar(1)}

\* The locals of a caller: the statement it is at, the children its range
\* has yet to make, the slice read for append, the slice returned.
AtStart == [pc |-> "test", todo |-> <<>>, cur |-> <<>>, out |-> <<>>]

\* What the calls leave alone.
raceFrame ==
  <<root, mergeVars, foldVars, findVars, treeVars, heldVars, replaceVars>>

InitRace ==
  /\ root \in RaceValues
  /\ children = NotBuilt
  /\ callers = [c \in 1..NumCallers |-> AtStart]
  /\ NoMerge /\ NoFold /\ NoFind /\ NoTree /\ NoHeld /\ NoReplace

\* Line 331: if n.children == nil.
RaceTest(c) ==
  /\ callers[c].pc = "test"
  /\ callers' = [callers EXCEPT ![c].pc = IF children.built THEN "copy" ELSE "make"]
  /\ UNCHANGED <<children, raceFrame>>

\* Line 332: n.children = []*yamlNode{}, and the start of the range of line
\* 336 or 346 over the value.
RaceMake(c) ==
  /\ callers[c].pc = "make"
  /\ children' = Built(<<>>)
  /\ \E keys \in (IF IsMap(root) THEN Perms(DOMAIN root.m) ELSE {<<>>}) :
       callers' = [callers EXCEPT ![c].pc = "range",
                                  ![c].todo = BuildChildren(root, keys)]
  /\ UNCHANGED raceFrame

\* Lines 336 and 346, one turn of the range: the end of the loop, or the read
\* of n.children for the append of lines 344 and 353.
RaceRange(c) ==
  /\ callers[c].pc = "range"
  /\ callers' = IF callers[c].todo = <<>>
                THEN [callers EXCEPT ![c].pc = "copy"]
                ELSE [callers EXCEPT ![c].pc = "append", ![c].cur = children.list]
  /\ UNCHANGED <<children, raceFrame>>

\* Lines 344 and 353: n.children = append(n.children, n2).
RaceAppend(c) ==
  /\ callers[c].pc = "append"
  /\ children' = Built(Append(callers[c].cur, Head(callers[c].todo)))
  /\ callers' = [callers EXCEPT ![c].pc = "range",
                                ![c].todo = Tail(@),
                                ![c].cur = <<>>]
  /\ UNCHANGED raceFrame

\* Lines 359-361: the copy of n.children returned.
RaceCopy(c) ==
  /\ callers[c].pc = "copy"
  /\ callers' = [callers EXCEPT ![c].pc = "done", ![c].out = children.list]
  /\ UNCHANGED <<children, raceFrame>>

NextRace ==
  \/ \E c \in 1..NumCallers : RaceTest(c)
  \/ \E c \in 1..NumCallers : RaceMake(c)
  \/ \E c \in 1..NumCallers : RaceRange(c)
  \/ \E c \in 1..NumCallers : RaceAppend(c)
  \/ \E c \in 1..NumCallers : RaceCopy(c)

SpecRace == InitRace /\ [][NextRace]_vars

\* C9 (as claimed): whatever the interleaving of the callers of Children()
\* on a node with no children built yet, each is returned the complete list:
\* one child per map entry or sequence element.
C9_NeverPartial ==
  \A c \in DOMAIN callers :
    callers[c].pc = "done" => IsChildList(root, callers[c].out)

=============================================================================
